---- MODULE Spec2Model ----
(***************************************************************************)
(* A model of ctx-miner's session-memory layer:                            *)
(*   examples/chatbot_with_memory.py   MemoryChatbot                        *)
(*   ctx_miner/core/context_generator.py   ContextGenerator                 *)
(* Strings are sequences of tokens (a token is a TLA+ string), so that      *)
(* strip, join and f-string formatting are computed, not assumed.           *)
(***************************************************************************)
EXTENDS Integers, Sequences, FiniteSets, TLC

\* ------------------------------------------------------------------ bounds

\* Exchanges (chat() calls) a session buffer may hold before the model stops
\* accepting further chat() calls on it.
MaxExchanges == 4

\* Largest max_contexts the retriever is exercised with in SpecRetr; the
\* engine is asked for 2 * max_contexts results.
MaxLimit == 3

\* Most results the engine returns to one search in SpecRetr.
MaxResults == 4

\* Most results handed to format_context_for_llm in SpecFmt; max_contexts
\* ranges from 0 to one more than that.
MaxFmtResults == 3

\* Buffered turns from which a concurrent caller starts no further chat():
\* two overlapping exchanges reach the first periodic flush
MaxConcTurns == 3

\* Largest `limit` passed to get_context_for_query: above the formatter's
\* default, so that a 6th result is there to be left out
MaxQueryLimit == 6

\* ------------------------------------------------------- program constants

\* chat(): `len(self.current_session) >= 4 and len(self.current_session) % 4 == 0`
FlushEvery == 4
\* save_conversation_turn(): `len(self.current_session) >= 2`
MinEpisodeLen == 2
\* get_relevant_context(self, user_input, max_contexts=5)
DefaultMaxContexts == 5
\* generate_response(): `self.current_session[-6:]`
HistoryWindow == 6
\* format_context_for_llm(self, search_results, max_contexts=5)
DefaultFormatContexts == 5

\* ------------------------------------------------------------------ domains

Bots == {"user_001", "user_002"}
Tasks == {1, 2}
\* The coroutine slot of a host that awaits each call before the next
HostTasks == {1}
Inputs == {<<"hi">>, <<"trails?">>}
Whitespace == {" ", "\n"}

\* ------------------------------------------------------------ pure helpers

IsPrefix(s, t) == Len(s) <= Len(t) /\ SubSeq(t, 1, Len(s)) = s

\* Python's seq[:n] for n >= 0
Take(s, n) == SubSeq(s, 1, IF n < Len(s) THEN n ELSE Len(s))

\* Python's seq[-n:] for n > 0
LastN(s, n) == SubSeq(s, IF Len(s) > n THEN Len(s) - n + 1 ELSE 1, Len(s))

RECURSIVE LStrip(_)
LStrip(s) ==
    IF s # <<>> /\ Head(s) \in Whitespace THEN LStrip(Tail(s)) ELSE s

RECURSIVE RStrip(_)
RStrip(s) ==
    IF s # <<>> /\ s[Len(s)] \in Whitespace
    THEN RStrip(SubSeq(s, 1, Len(s) - 1))
    ELSE s

\* A fact taken as the engine gives it, without .strip().
Strip_None(s) == s

\* str.strip()
Strip(s) == RStrip(LStrip(s))

\* sep.join(parts)
RECURSIVE Join(_, _)
Join(parts, sep) ==
    IF parts = <<>> THEN <<>>
    ELSE IF Len(parts) = 1 THEN Head(parts)
    ELSE Head(parts) \o sep \o Join(Tail(parts), sep)

\* CtxMinerMessage(role=..., content=...)
Message(role, content) == [role |-> role, content |-> content]

\* result.get("fact", "")
ResultFact(result) == IF "fact" \in DOMAIN result THEN result.fact ELSE <<>>

\* ------------------------------------------------- MemoryChatbot: retrieval

\* The loop without its `fact not in seen_facts` test.
RECURSIVE DedupLoop_NoSeen(_, _, _)
DedupLoop_NoSeen(results, seen_facts, context_parts) ==
    IF results = <<>> THEN context_parts
    ELSE LET fact == Strip(ResultFact(Head(results)))
         IN  IF fact # <<>>
             THEN DedupLoop_NoSeen(Tail(results), seen_facts \cup {fact},
                                   Append(context_parts, <<"- ">> \o fact))
             ELSE DedupLoop_NoSeen(Tail(results), seen_facts, context_parts)

\* The loop of get_relevant_context over results[:max_contexts]: the lines
\* "- <fact>" kept, in order, with the facts already seen.
RECURSIVE DedupLoop(_, _, _)
DedupLoop(results, seen_facts, context_parts) ==
    IF results = <<>> THEN context_parts
    ELSE LET fact == Strip(ResultFact(Head(results)))
         IN  IF fact # <<>> /\ fact \notin seen_facts
             THEN DedupLoop(Tail(results), seen_facts \cup {fact},
                            Append(context_parts, <<"- ">> \o fact))
             ELSE DedupLoop(Tail(results), seen_facts, context_parts)

\* context_parts as built by get_relevant_context from the engine's results
ContextParts(results, max_contexts) ==
    DedupLoop(Take(results, max_contexts), {}, <<>>)

\* The facts get_relevant_context retains: each line without its "- " marker.
RetainedFacts(results, max_contexts) ==
    LET parts == ContextParts(results, max_contexts)
    IN  [i \in 1..Len(parts) |-> Tail(parts[i])]

\* `limit=max_contexts * 2` of the search_context call
SearchLimit(max_contexts) == max_contexts * 2

\* get_relevant_context: the body of its `try`, once search_context has
\* returned `results`
FormatContext(results, max_contexts) ==
    IF results = <<>> THEN <<>>
    ELSE LET context_parts == ContextParts(results, max_contexts)
         IN  IF context_parts # <<>>
             THEN <<"Relevant context from past conversations:", "\n">>
                  \o Join(context_parts, <<"\n">>)
             ELSE <<>>

\* get_relevant_context without its `except Exception`: the engine's error
\* reaches chat().
GetRelevantContext_Propagates(search, max_contexts) ==
    IF search.raised
    THEN [raised |-> TRUE, value |-> <<>>]
    ELSE [raised |-> FALSE, value |-> FormatContext(search.results, max_contexts)]

\* get_relevant_context(user_input, max_contexts), given what the engine's
\* search_context did: search = [raised |-> BOOLEAN, results |-> sequence].
\* The result is [raised |-> whether the method raises, value |-> its string].
GetRelevantContext(search, max_contexts) ==
    IF search.raised
    THEN [raised |-> FALSE, value |-> <<>>]
    ELSE [raised |-> FALSE, value |-> FormatContext(search.results, max_contexts)]

\* ------------------------------------------------------- ContextGenerator

\* result.get("created_at", "")
ResultCreatedAt(result) ==
    IF "created_at" \in DOMAIN result THEN result.created_at ELSE <<>>

\* f"\n{i}. {fact}"
NumberedBlock(i, fact) == <<"\n", ToString(i), ". ">> \o fact

\* f"   (From: {created_at})"
ProvenanceLine(created_at) == <<"   (From: ">> \o created_at \o <<")">>

\* The loop of format_context_for_llm: enumerate(..., 1) from number i on
RECURSIVE FormatLoop(_, _, _)
FormatLoop(results, i, context_parts) ==
    IF results = <<>> THEN context_parts
    ELSE LET fact == ResultFact(Head(results))
             created_at == ResultCreatedAt(Head(results))
             numbered == Append(context_parts, NumberedBlock(i, fact))
         IN  FormatLoop(Tail(results), i + 1,
                        IF created_at # <<>>
                        THEN Append(numbered, ProvenanceLine(created_at))
                        ELSE numbered)

\* The loop numbering from 0: enumerate without its start.
FormatParts_FromZero(search_results, max_contexts) ==
    FormatLoop(Take(search_results, max_contexts), 0,
               << <<"Relevant conversation context:">> >>)

\* format_context_for_llm: context_parts for a non-empty search_results
FormatParts(search_results, max_contexts) ==
    FormatLoop(Take(search_results, max_contexts), 1,
               << <<"Relevant conversation context:">> >>)

\* format_context_for_llm without its `if not search_results`.
FormatContextForLlm_NoSentinel(search_results, max_contexts) ==
    Join(FormatParts(search_results, max_contexts), <<"\n">>)

\* format_context_for_llm(search_results, max_contexts)
FormatContextForLlm(search_results, max_contexts) ==
    IF search_results = <<>>
    THEN <<"No relevant context found.">>
    ELSE Join(FormatParts(search_results, max_contexts), <<"\n">>)

\* repr() of a str: in quotes, a newline written as backslash, n
StrRepr(s) ==
    <<"'">> \o [i \in 1..Len(s) |-> IF s[i] = "\n" THEN "\\n" ELSE s[i]]
    \o <<"'">>

\* repr() of one search result, a dict with string values
DictRepr(result) ==
    <<"{">>
    \o (IF "fact" \in DOMAIN result
        THEN <<"'fact': ">> \o StrRepr(result.fact) ELSE <<>>)
    \o (IF "fact" \in DOMAIN result /\ "created_at" \in DOMAIN result
        THEN <<", ">> ELSE <<>>)
    \o (IF "created_at" \in DOMAIN result
        THEN <<"'created_at': ">> \o StrRepr(result.created_at) ELSE <<>>)
    \o <<"}">>

\* str(results) of a list of search results
StrOfResults(results) ==
    <<"[">>
    \o Join([i \in 1..Len(results) |-> DictRepr(results[i])], <<", ">>)
    \o <<"]">>

\* get_context_for_query handing its `limit` on to the formatter.
GetContextForQuery_PassesLimit(search, limit, format_for_llm) ==
    [raised |-> search.raised,
     value |-> IF search.raised THEN <<>>
               ELSE IF format_for_llm
               THEN FormatContextForLlm(search.results, limit)
               ELSE StrOfResults(search.results)]

\* get_context_for_query(query, limit, format_for_llm), `search` being what
\* search_context(query=query, limit=limit) answers; the call is wrapped in no
\* try: [raised |-> the engine's error reaches the caller, value |-> the
\* string returned]
GetContextForQuery(search, limit, format_for_llm) ==
    [raised |-> search.raised,
     value |-> IF search.raised THEN <<>>
               ELSE IF format_for_llm
               THEN FormatContextForLlm(search.results, DefaultFormatContexts)
               ELSE StrOfResults(search.results)]

\* ------------------------------------------------ MemoryChatbot: generation

\* The prompt built from the whole buffer.
RecentTurns_All(session) == session

\* generate_response(): `self.current_session[-6:]`, the turns rendered under
\* "Recent conversation:" in the prompt
RecentTurns(session) == LastN(session, HistoryWindow)

\* generate_response(): "\n".join(f"{msg.role}: {msg.content}" ...)
ConversationHistory(session) ==
    Join([i \in 1..Len(RecentTurns(session)) |->
            <<RecentTurns(session)[i].role, ": ">>
            \o RecentTurns(session)[i].content],
         <<"\n">>)

\* generate_response(user_input, context): the simulated reply
GenerateResponse(user_input, context) ==
    <<"[Simulated response based on context about: ">> \o user_input \o <<"]">>

\* chat() answering with a fallback text when the generation fails.
AwaitGeneration_Fallback(user_input, context, gen_ok) ==
    [raised |-> FALSE,
     value |-> IF gen_ok THEN GenerateResponse(user_input, context)
               ELSE <<"Sorry, something went wrong.">>]

\* chat(): `response = await self.generate_response(user_input, context)`,
\* which chat() wraps in no try: [raised |-> the generation's error reaches
\* chat()'s caller, value |-> the response]
AwaitGeneration(user_input, context, gen_ok) ==
    [raised |-> ~gen_ok,
     value |-> IF gen_ok THEN GenerateResponse(user_input, context) ELSE <<>>]

\* --------------------------------------------------- MemoryChatbot: saving

\* The periodic-save condition without its `% 4 == 0`.
FlushDue_NoModulo(session) == Len(session) >= FlushEvery

\* chat(): the periodic-save condition, on the session after the assistant
\* turn was appended
FlushDue(session) ==
    Len(session) >= FlushEvery /\ Len(session) % FlushEvery = 0

\* save_conversation_turn submitting any non-empty buffer.
SaveSubmits_Any(session) == Len(session) >= 1

\* save_conversation_turn() asking for a whole batch instead of one exchange.
SaveSubmits_Batch(session) == Len(session) >= FlushEvery

\* save_conversation_turn(): whether add_episode is called at all
SaveSubmits(session) == Len(session) >= MinEpisodeLen

\* An episode made of the latest batch only.
EpisodeMessages_LastBatch(session) == LastN(session, FlushEvery)

\* save_conversation_turn(): CtxMinerEpisode(messages=self.current_session)
EpisodeMessages(session) == session

\* A save that empties the buffer once the engine has accepted its turns.
SessionAfterSave_Truncating(session, add_ok) ==
    IF add_ok THEN <<>> ELSE session

\* save_conversation_turn(): self.current_session once the method returns,
\* add_ok telling whether add_episode succeeded
SessionAfterSave(session, add_ok) == session

\* save_conversation_turn without its except clause.
SaveRaises_Propagates(add_ok) == ~add_ok

\* save_conversation_turn(): whether the method raises when add_episode
\* does (`except Exception` logs and returns)
SaveRaises(add_ok) == FALSE

\* end_session(): `if self.current_session:`, whether it saves and clears
EndSaves(session) == session # <<>>

\* end_session() without its `self.current_session = []`.
SessionAfterEnd_Kept(session) == session

\* end_session(): self.current_session once the method returns
SessionAfterEnd(session) == IF EndSaves(session) THEN <<>> ELSE session

\* -------------------------------------------------------------------- state

VARIABLES
    current_session,  \* [Bots -> sequence of messages]: MemoryChatbot.current_session
    calls,            \* [Tasks -> record]: the coroutine of each chat()/end_session() call
    flushed,          \* [Bots -> Nat]: leading turns of the buffer held by an accepted episode
    retry,            \* [Bots -> sequence]: messages of the session's latest rejected episode
    flush_calls,      \* [Bots -> Nat]: save_conversation_turn calls chat() made in the session
    ended,            \* [Bots -> BOOLEAN]: end_session() has been called on this chatbot
    retr,             \* get_relevant_context exercised alone (SpecRetr)
    fmt,              \* format_context_for_llm exercised alone (SpecFmt)
    qry,              \* get_context_for_query exercised alone (SpecQuery)
    driver            \* simulate_multi_session_chatbot's own position (SpecDriver)

vars == <<current_session, calls, flushed, retry, flush_calls, ended, retr,
          fmt, qry, driver>>

\* What the chatbot's methods never touch
aside == <<retr, fmt, qry, driver>>

\* A call's record. kind, pc, bot, user_input, context, response and episode
\* are the coroutine's own; the rest records what the call did:
\*   search_raised  search_context raised
\*   gen_raised     generate_response raised
\*   searches       search_context calls made
\*   at_search      the buffer's length when search_context was called
\*   history        conversation_history of the prompt generate_response built
\*   raised         the call raised to its caller
\*   add_result     "none", "pending", "ok" (add_episode returned) or "failed"
\*   saves, adds    save_conversation_turn and add_episode calls made
\*   started_with   the buffer's length when the call started
\*   since          turns beyond the accepted prefix at chat()'s flush check
\*   base           the accepted prefix's length when the episode was built
\*   prev_failed    the session's latest rejected episode at that moment
\*   lost           turns end_session() cleared that no accepted episode held
\*   stale          the buffer was cleared while the call awaited add_episode:
\*                  its episode holds turns of an earlier buffer
NoCall ==
    [kind |-> "none", pc |-> "idle", bot |-> "user_001", user_input |-> <<>>,
     search_raised |-> FALSE, gen_raised |-> FALSE, searches |-> 0,
     at_search |-> 0, context |-> <<>>, history |-> <<>>, response |-> <<>>,
     raised |-> FALSE, episode |-> <<>>, add_result |-> "none",
     saves |-> 0, adds |-> 0, started_with |-> 0, since |-> 0, base |-> 0,
     prev_failed |-> <<>>, lost |-> 0, stale |-> FALSE]

NoRetr == [called |-> FALSE, raised |-> FALSE, results |-> <<>>,
           max_contexts |-> 0, out |-> <<>>, facts |-> <<>>]

NoFmt == [called |-> FALSE, results |-> <<>>, max_contexts |-> 0,
          parts |-> <<>>, out |-> <<>>]

NoQry == [called |-> FALSE, limit |-> 0, format_for_llm |-> TRUE,
          search_raised |-> FALSE, results |-> <<>>, raised |-> FALSE,
          out |-> <<>>]

\* simulate_multi_session_chatbot before it has created the engine handle:
\*   pc             "off", "new" (about to create a chatbot), "chat", "end",
\*                  "stats", "finally" or "done"
\*   session, step  the session it is in, the chat() calls of it that returned
\*   awaiting       it awaits a chat() or end_session() call
\*   created, finished  sessions whose chatbot was created, whose
\*                  end_session() completed
\*   failed         an exception left the try block
\*   closes         miner.close() calls made
\*   open_at_close  sessions created and not finished when close() was called
NoDriver == [pc |-> "off", session |-> 0, step |-> 0, awaiting |-> FALSE,
             created |-> {}, finished |-> {}, failed |-> FALSE, closes |-> 0,
             open_at_close |-> {}]

\* The chatbots' own state, as __init__ leaves it
InitBots ==
    /\ current_session = [b \in Bots |-> <<>>]
    /\ calls = [t \in Tasks |-> NoCall]
    /\ flushed = [b \in Bots |-> 0]
    /\ retry = [b \in Bots |-> <<>>]
    /\ flush_calls = [b \in Bots |-> 0]
    /\ ended = [b \in Bots |-> FALSE]

Init ==
    /\ InitBots
    /\ retr = NoRetr
    /\ fmt = NoFmt
    /\ qry = NoQry
    /\ driver = NoDriver

\* One buffer that every MemoryChatbot instance shares.
WithSession_Shared(sessions, b, session) == [o \in Bots |-> session]

\* An assignment to self.current_session, an attribute __init__ gives each
\* instance for itself: the buffers once chatbot b's is `session`
WithSession(sessions, b, session) == [sessions EXCEPT ![b] = session]

Idle(t) == calls[t].pc = "idle"
NoCallInProgress == \A t \in Tasks : Idle(t)

\* What the engine's search_context may answer inside chat()
SearchOutcomes ==
    { [raised |-> TRUE, results |-> <<>>],
      [raised |-> FALSE, results |-> <<>>],
      [raised |-> FALSE,
       results |-> << [fact |-> <<"likes", " ", "hiking">>],
                      [fact |-> <<" ", "likes", " ", "hiking">>],
                      [fact |-> <<"Alice">>, created_at |-> <<"2025">>] >>] }

\* The call of save_conversation_turn made by call c on `session`: up to the
\* await of add_episode, or to its return when nothing is submitted.
BeginSave(c, session, b) ==
    IF SaveSubmits(session)
    THEN [c EXCEPT !.pc = "add", !.episode = EpisodeMessages(session),
                   !.add_result = "pending", !.saves = @ + 1, !.adds = @ + 1,
                   !.base = flushed[b], !.prev_failed = retry[b]]
    ELSE [c EXCEPT !.pc = "idle", !.saves = @ + 1]

\* chat() that has not appended the user turn when it searches.
SessionAtSearch_Late(session, user_input) == session

\* chat(): self.current_session when search_context is called, the user turn
\* appended
SessionAtSearch(session, user_input) ==
    Append(session, Message("user", user_input))

\* chat() that does not buffer its reply.
SessionAfterResponse_Dropped(session, response) == session

\* chat(): self.current_session once the assistant turn is appended
SessionAfterResponse(session, response) ==
    Append(session, Message("assistant", response))

\* chat(user_input), from its first line to the await of search_context
ChatStart(t, b, user_input) ==
    /\ Idle(t)
    /\ Len(current_session[b]) + 2 <= 2 * MaxExchanges
    /\ LET session == SessionAtSearch(current_session[b], user_input)
       IN  /\ current_session' = WithSession(current_session, b, session)
           /\ calls' = [calls EXCEPT ![t] =
                   [NoCall EXCEPT !.kind = "chat", !.pc = "search", !.bot = b,
                                  !.user_input = user_input,
                                  !.started_with = Len(current_session[b]),
                                  !.searches = 1,
                                  !.at_search = Len(session)]]
    /\ UNCHANGED <<flushed, retry, flush_calls, ended>>

\* chat(): search_context answers; the context is built, the response is
\* generated (gen_ok: the generation succeeds), the assistant turn is appended
\* and the periodic save is started when it is due.
SearchReturn(t, search, gen_ok) ==
    /\ calls[t].kind = "chat" /\ calls[t].pc = "search"
    /\ LET b == calls[t].bot
           got == GetRelevantContext(search, DefaultMaxContexts)
           gen == AwaitGeneration(calls[t].user_input, got.value, gen_ok)
           c0 == [calls[t] EXCEPT !.search_raised = search.raised,
                                  !.gen_raised = ~got.raised /\ ~gen_ok,
                                  !.history =
                                     ConversationHistory(current_session[b])]
       IN  IF got.raised \/ gen.raised
           THEN /\ calls' = [calls EXCEPT ![t] =
                               [c0 EXCEPT !.pc = "idle", !.raised = TRUE,
                                          !.context = got.value]]
                /\ UNCHANGED <<current_session, flush_calls>>
           ELSE LET response == gen.value
                    session == SessionAfterResponse(current_session[b],
                                                    response)
                    c1 == [c0 EXCEPT !.context = got.value, !.response = response,
                                     !.since = Len(session) - flushed[b]]
                IN  /\ current_session' = WithSession(current_session, b, session)
                    /\ calls' = [calls EXCEPT ![t] =
                                   IF FlushDue(session)
                                   THEN BeginSave(c1, session, b)
                                   ELSE [c1 EXCEPT !.pc = "idle"]]
                    /\ flush_calls' = [flush_calls EXCEPT ![b] =
                                         IF FlushDue(session) THEN @ + 1 ELSE @]
    /\ UNCHANGED <<flushed, retry, ended>>

\* The calls once call t has cleared chatbot b's buffer: the episodes other
\* calls on b have in flight hold none of the turns buffered from here on.
AfterClear(cs, t, b) ==
    [o \in Tasks |->
       IF o # t /\ cs[o].bot = b /\ cs[o].pc = "add"
       THEN [cs[o] EXCEPT !.stale = TRUE] ELSE cs[o]]

\* The leading turns of chatbot b's buffer that an accepted episode holds,
\* once add_episode has answered call c: the episode was the whole buffer when
\* it was submitted, and counts if it was accepted and the buffer has not been
\* cleared since.
Covered(c, b, add_ok) ==
    IF add_ok /\ ~c.stale /\ Len(c.episode) > flushed[b]
    THEN Len(c.episode) ELSE flushed[b]

\* The latest rejected episode of chatbot b's present buffer, once
\* add_episode has answered call c: the answer to an episode of a buffer
\* cleared since says nothing about the present one.
Rejected(c, b, add_ok) ==
    IF c.stale THEN retry[b]
    ELSE IF add_ok THEN <<>> ELSE c.episode

\* end_session(), to the await of add_episode, or to its end when nothing is
\* submitted
EndStart(t, b) ==
    /\ Idle(t)
    /\ LET session == current_session[b]
           c0 == [NoCall EXCEPT !.kind = "end", !.bot = b,
                                !.started_with = Len(session)]
           c1 == IF EndSaves(session) THEN BeginSave(c0, session, b) ELSE c0
       IN  IF c1.pc = "add"
           THEN /\ calls' = [calls EXCEPT ![t] = c1]
                /\ UNCHANGED <<current_session, flushed, retry, flush_calls, ended>>
           ELSE LET after == SessionAfterEnd(SessionAfterSave(session, TRUE))
                IN  /\ calls' = AfterClear(
                                  [calls EXCEPT ![t] =
                                     [c1 EXCEPT !.lost =
                                        IF after = <<>> /\ Len(session) > flushed[b]
                                        THEN Len(session) - flushed[b] ELSE 0]],
                                  t, b)
                    /\ current_session' = WithSession(current_session, b, after)
                    /\ flushed' = [flushed EXCEPT
                                     ![b] = IF after = <<>> THEN 0 ELSE @]
                    /\ retry' = [retry EXCEPT
                                   ![b] = IF after = <<>> THEN <<>> ELSE @]
                    /\ flush_calls' = [flush_calls EXCEPT
                                         ![b] = IF after = <<>> THEN 0 ELSE @]
                    /\ ended' = [ended EXCEPT ![b] = TRUE]

\* add_episode answers (add_ok: it returned; otherwise it raised), inside
\* save_conversation_turn; chat() then returns, end_session() clears the buffer.
AddEpisodeReturn(t, add_ok) ==
    /\ calls[t].pc = "add"
    /\ LET b == calls[t].bot
           c == calls[t]
           covered == Covered(c, b, add_ok)
           session == SessionAfterSave(current_session[b], add_ok)
           c1 == [c EXCEPT !.pc = "idle",
                           !.add_result = IF add_ok THEN "ok" ELSE "failed",
                           !.raised = ~add_ok /\ SaveRaises(add_ok)]
       IN  IF c.kind = "end" /\ ~c1.raised
           THEN /\ calls' = AfterClear(
                               [calls EXCEPT ![t] =
                                  [c1 EXCEPT !.lost = IF Len(session) > covered
                                                      THEN Len(session) - covered
                                                      ELSE 0]],
                               t, b)
                /\ current_session' =
                      WithSession(current_session, b, SessionAfterEnd(session))
                /\ flushed' = [flushed EXCEPT ![b] = 0]
                /\ retry' = [retry EXCEPT ![b] = <<>>]
                /\ flush_calls' = [flush_calls EXCEPT ![b] = 0]
                /\ ended' = [ended EXCEPT ![b] = TRUE]
           ELSE /\ calls' = [calls EXCEPT ![t] = c1]
                /\ current_session' = WithSession(current_session, b, session)
                /\ flushed' = [flushed EXCEPT ![b] = covered]
                /\ retry' = [retry EXCEPT ![b] = Rejected(c, b, add_ok)]
                /\ UNCHANGED <<flush_calls, ended>>

\* No other chatbot holds buffered turns
OthersClosed(b) == \A o \in Bots \ {b} : current_session[o] = <<>>

\* The host of simulate_multi_session_chatbot: it awaits each call before it
\* makes the next one, and ends a chatbot's session before it talks to
\* another chatbot.
Next ==
    \/ \E t \in HostTasks, b \in Bots, u \in Inputs :
          /\ NoCallInProgress /\ OthersClosed(b) /\ ChatStart(t, b, u)
          /\ UNCHANGED aside
    \/ \E t \in Tasks, s \in SearchOutcomes :
          SearchReturn(t, s, TRUE) /\ UNCHANGED aside
    \/ \E t \in HostTasks, b \in Bots :
          NoCallInProgress /\ EndStart(t, b) /\ UNCHANGED aside
    \/ \E t \in Tasks, ok \in BOOLEAN :
          AddEpisodeReturn(t, ok) /\ UNCHANGED aside

Spec == Init /\ [][Next]_vars

\* ------------------------------------ the host, with a generator that can fail

\* generate_response stands for a call to an LLM API; the host of Next with
\* that call able to raise inside chat().
NextGen ==
    \/ Next
    \/ \E t \in Tasks, s \in SearchOutcomes :
          SearchReturn(t, s, FALSE) /\ UNCHANGED aside

SpecGen == Init /\ [][NextGen]_vars

\* -------------------------------------------- simulate_multi_session_chatbot

\* The three sessions of the script: the chatbot's user_id and what the user
\* says
Script ==
    << [bot |-> "user_001",
        inputs |-> << <<"Hi! My name is Alice and I love hiking">>,
                      <<"What are some good hiking trails for beginners?">>,
                      <<"I prefer trails with waterfalls">>,
                      <<"Thanks for the suggestions!">> >>],
       [bot |-> "user_001",
        inputs |-> << <<"Do you remember what I told you about my interests?">>,
                      <<"Can you recommend more advanced trails now?">>,
                      <<"What equipment do I need for longer hikes?">> >>],
       [bot |-> "user_002",
        inputs |-> << <<"Hello! I'm Bob and I'm interested in cooking">>,
                      <<"What are some easy recipes for beginners?">>,
                      <<"I especially like Italian food">> >>] >>

DriverBot == Script[driver.session].bot
DriverInputs == Script[driver.session].inputs

\* miner = CtxMiner(config), and the try block is entered
DriverStart ==
    /\ driver.pc = "off"
    /\ driver' = [driver EXCEPT !.pc = "new", !.session = 1]
    /\ UNCHANGED <<current_session, calls, flushed, retry, flush_calls, ended,
                   retr, fmt, qry>>

\* MemoryChatbot(user_id, miner): a new instance, its buffer empty
DriverNewBot ==
    /\ driver.pc = "new"
    /\ LET b == DriverBot
       IN  /\ current_session' = [current_session EXCEPT ![b] = <<>>]
           /\ flushed' = [flushed EXCEPT ![b] = 0]
           /\ retry' = [retry EXCEPT ![b] = <<>>]
           /\ flush_calls' = [flush_calls EXCEPT ![b] = 0]
           /\ ended' = [ended EXCEPT ![b] = FALSE]
    /\ driver' = [driver EXCEPT !.pc = "chat", !.step = 0,
                                !.created = @ \cup {driver.session}]
    /\ UNCHANGED <<calls, retr, fmt, qry>>

\* `response = await bot.chat(user_input)`, to chat()'s first await
DriverChat ==
    /\ driver.pc = "chat" /\ ~driver.awaiting
    /\ driver.step < Len(DriverInputs)
    /\ ChatStart(1, DriverBot, DriverInputs[driver.step + 1])
    /\ driver' = [driver EXCEPT !.awaiting = TRUE]
    /\ UNCHANGED <<retr, fmt, qry>>

\* `await bot.end_session()`, to its await of add_episode or to its end
DriverEnd ==
    /\ driver.pc = "chat" /\ ~driver.awaiting
    /\ driver.step = Len(DriverInputs)
    /\ EndStart(1, DriverBot)
    /\ driver' = [driver EXCEPT !.pc = "end", !.awaiting = TRUE]
    /\ UNCHANGED <<retr, fmt, qry>>

\* The awaited call is over: the loop goes on, the next session starts, or
\* the exception the call raised leaves the try block.
DriverResume ==
    /\ driver.awaiting /\ Idle(1)
    /\ driver' =
          IF calls[1].raised
          THEN [driver EXCEPT !.awaiting = FALSE, !.pc = "finally",
                              !.failed = TRUE]
          ELSE IF driver.pc = "chat"
          THEN [driver EXCEPT !.awaiting = FALSE, !.step = @ + 1]
          ELSE IF driver.session < Len(Script)
          THEN [driver EXCEPT !.awaiting = FALSE, !.pc = "new",
                              !.session = @ + 1,
                              !.finished = @ \cup {driver.session}]
          ELSE [driver EXCEPT !.awaiting = FALSE, !.pc = "stats",
                              !.finished = @ \cup {driver.session}]
    /\ UNCHANGED <<current_session, calls, flushed, retry, flush_calls, ended,
                   retr, fmt, qry>>

\* `stats = await miner.get_stats()` and the log line: the last statements of
\* the try block (stats_ok: they raise nothing)
DriverGetStats(stats_ok) ==
    /\ driver.pc = "stats"
    /\ driver' = [driver EXCEPT !.pc = "finally", !.failed = ~stats_ok]
    /\ UNCHANGED <<current_session, calls, flushed, retry, flush_calls, ended,
                   retr, fmt, qry>>

\* finally: `await miner.close()`
DriverClose ==
    /\ driver.pc = "finally"
    /\ driver' = [driver EXCEPT
                    !.pc = "done", !.closes = @ + 1,
                    !.open_at_close = driver.created \ driver.finished]
    /\ UNCHANGED <<current_session, calls, flushed, retry, flush_calls, ended,
                   retr, fmt, qry>>

\* The script with the engine answering or raising at each call, and with
\* generate_response, which stands for a call to an LLM API, able to raise.
NextDriver ==
    \/ DriverStart
    \/ DriverNewBot
    \/ DriverChat
    \/ \E s \in SearchOutcomes, gen_ok \in BOOLEAN :
          SearchReturn(1, s, gen_ok) /\ UNCHANGED aside
    \/ \E ok \in BOOLEAN : AddEpisodeReturn(1, ok) /\ UNCHANGED aside
    \/ DriverEnd
    \/ DriverResume
    \/ \E stats_ok \in BOOLEAN : DriverGetStats(stats_ok)
    \/ DriverClose

SpecDriver == Init /\ [][NextDriver]_vars

\* ---------------------------------------- callers that do not await in turn

\* The chatbot a concurrent caller shares between its tasks
SharedBots == {"user_001"}

\* What each task says, so that the buffer tells whose turn is whose
TaskInput(t) == IF t = 1 THEN <<"hi">> ELSE <<"trails?">>

\* chat() and end_session() are plain coroutines on one shared buffer with no
\* lock: a caller that starts them as tasks has each run to its next await, and
\* the event loop resumes whichever awaited engine call answers first.
NextConc ==
    \/ \E t \in Tasks, b \in SharedBots :
          /\ Len(current_session[b]) < MaxConcTurns
          /\ ChatStart(t, b, TaskInput(t)) /\ UNCHANGED aside
    \/ \E t \in Tasks, s \in SearchOutcomes :
          SearchReturn(t, s, TRUE) /\ UNCHANGED aside
    \/ \E t \in Tasks, b \in SharedBots : EndStart(t, b) /\ UNCHANGED aside
    \/ \E t \in Tasks, ok \in BOOLEAN :
          AddEpisodeReturn(t, ok) /\ UNCHANGED aside

SpecConc == Init /\ [][NextConc]_vars

\* ------------------------------------- two chatbots on one engine handle

\* The chatbot each task talks to
TaskBot(t) == IF t = 1 THEN "user_001" ELSE "user_002"

\* Two tasks, each with its own MemoryChatbot on the shared CtxMiner: each
\* awaits its own calls in turn, and the event loop interleaves the two at
\* their awaits.
NextPar ==
    \/ \E t \in Tasks :
          /\ Len(current_session[TaskBot(t)]) < MaxConcTurns
          /\ ChatStart(t, TaskBot(t), TaskInput(t)) /\ UNCHANGED aside
    \/ \E t \in Tasks, s \in SearchOutcomes :
          SearchReturn(t, s, TRUE) /\ UNCHANGED aside
    \/ \E t \in Tasks : EndStart(t, TaskBot(t)) /\ UNCHANGED aside
    \/ \E t \in Tasks, ok \in BOOLEAN :
          AddEpisodeReturn(t, ok) /\ UNCHANGED aside

SpecPar == Init /\ [][NextPar]_vars

\* ------------------------------------------- the retriever, exercised alone

\* What a search result may look like: a fact with or without surrounding
\* whitespace, a blank fact, an empty fact, a result without a fact.
ResultPool ==
    { [fact |-> <<"a">>], [fact |-> <<" ", "a", "\n">>], [fact |-> <<"b">>],
      [fact |-> <<"c">>, created_at |-> <<"2025">>], [fact |-> <<" ">>],
      [created_at |-> <<"2025">>] }

\* The calls of get_relevant_context to exercise: the engine raises, or
\* returns at most the `limit` results it was asked for.
RetrInput(raised, rs, m) ==
    [called |-> FALSE, raised |-> raised, results |-> rs, max_contexts |-> m,
     out |-> <<>>, facts |-> <<>>]

InitRetr ==
    /\ InitBots
    /\ fmt = NoFmt
    /\ qry = NoQry
    /\ driver = NoDriver
    /\ \E m \in 1..MaxLimit, raised \in BOOLEAN :
          \E k \in 0..(IF raised THEN 0
                       ELSE IF SearchLimit(m) < MaxResults THEN SearchLimit(m)
                       ELSE MaxResults) :
             \E rs \in [1..k -> ResultPool] :
                retr = RetrInput(raised, rs, m)

\* get_relevant_context(query, max_contexts) called on its own
Retrieve ==
    /\ ~retr.called
    /\ LET search == [raised |-> retr.raised, results |-> retr.results]
       IN  retr' = [retr EXCEPT
                      !.called = TRUE,
                      !.out = GetRelevantContext(search, retr.max_contexts).value,
                      !.facts = IF retr.raised THEN <<>>
                                ELSE RetainedFacts(retr.results, retr.max_contexts)]
    /\ UNCHANGED <<current_session, calls, flushed, retry, flush_calls, ended,
                   fmt, qry, driver>>

NextRetr == Retrieve

SpecRetr == InitRetr /\ [][NextRetr]_vars

\* ------------------------------------------- the formatter, exercised alone

InitFmt ==
    /\ InitBots
    /\ retr = NoRetr
    /\ qry = NoQry
    /\ driver = NoDriver
    /\ \E n \in 0..(MaxFmtResults + 1), k \in 0..MaxFmtResults :
          \E rs \in [1..k -> ResultPool] :
             fmt = [NoFmt EXCEPT !.results = rs, !.max_contexts = n]

\* format_context_for_llm(search_results, max_contexts) called on its own
Format ==
    /\ ~fmt.called
    /\ fmt' = [fmt EXCEPT
                 !.called = TRUE,
                 !.parts = IF fmt.results = <<>> THEN <<>>
                           ELSE FormatParts(fmt.results, fmt.max_contexts),
                 !.out = FormatContextForLlm(fmt.results, fmt.max_contexts)]
    /\ UNCHANGED <<current_session, calls, flushed, retry, flush_calls, ended,
                   retr, qry, driver>>

NextFmt == Format

SpecFmt == InitFmt /\ [][NextFmt]_vars

\* ------------------------------- get_context_for_query, exercised alone

\* The engine's i-th ranked result, with or without a creation date, its
\* fact with or without whitespace around it
RankedResult(i, dated, padded) ==
    LET fact == IF padded THEN <<" ", "fact", ToString(i), "\n">>
                ELSE <<"fact", ToString(i)>>
    IN  IF dated THEN [fact |-> fact, created_at |-> <<"2025">>]
        ELSE [fact |-> fact]

\* The calls to exercise: the engine raises, or returns at most the `limit`
\* results it was asked for.
InitQry ==
    /\ InitBots
    /\ retr = NoRetr
    /\ fmt = NoFmt
    /\ driver = NoDriver
    /\ \E limit \in 1..MaxQueryLimit, raised, format_for_llm \in BOOLEAN :
          \E k \in 0..(IF raised THEN 0 ELSE limit) :
             \E dated \in SUBSET (1..k), padded \in BOOLEAN :
                qry = [NoQry EXCEPT
                         !.limit = limit, !.format_for_llm = format_for_llm,
                         !.search_raised = raised,
                         !.results = [i \in 1..k |->
                                        RankedResult(i, i \in dated,
                                                     padded /\ i = 1)]]

\* get_context_for_query(query, limit, format_for_llm) called on its own
Query ==
    /\ ~qry.called
    /\ LET search == [raised |-> qry.search_raised, results |-> qry.results]
           got == GetContextForQuery(search, qry.limit, qry.format_for_llm)
       IN  qry' = [qry EXCEPT !.called = TRUE, !.raised = got.raised,
                              !.out = got.value]
    /\ UNCHANGED <<current_session, calls, flushed, retry, flush_calls, ended,
                   retr, fmt, driver>>

NextQry == Query

SpecQuery == InitQry /\ [][NextQry]_vars

\* ------------------------------------------------------------------ claims

BufferOf(t) == current_session[calls[t].bot]

\* C1: every episode handed to add_episode holds exactly the turns appended
\* since the last accepted flush, in buffer order, so no turn an accepted
\* episode already holds is submitted again.
C1_EpisodeIsUnflushedTurns ==
    \A t \in Tasks :
       calls[t].pc = "add" =>
          calls[t].episode =
             SubSeq(BufferOf(t), calls[t].base + 1, Len(BufferOf(t)))

\* C2: when end_session() has cleared the buffer, every turn it cleared was
\* held by an episode the engine accepted.
C2_NoTurnDropped ==
    \A t \in Tasks :
       (calls[t].kind = "end" /\ calls[t].pc = "idle") => calls[t].lost = 0

\* A step in which an end_session() call on chatbot b finishes
EndSessionFinishes(b) ==
    \E t \in Tasks :
       /\ calls'[t] # calls[t]
       /\ calls'[t].kind = "end" /\ calls'[t].bot = b /\ calls'[t].pc = "idle"

\* C3: until end_session() clears it, the buffer only grows at its end: over
\* every step of chat() and every flush, accepted or rejected, the buffer
\* before the step is a prefix of the buffer after it.
C3_AppendOnly ==
    [][\A b \in Bots :
          ~EndSessionFinishes(b) =>
             IsPrefix(current_session[b], current_session'[b])]_vars

\* A periodic flush has been answered by the engine and the buffer still holds
\* every turn, the call's own two included.
C3_Witness ==
    \E t \in Tasks :
       /\ calls[t].kind = "chat" /\ calls[t].pc = "idle"
       /\ calls[t].add_result = "ok"
       /\ Len(BufferOf(t)) = 2 * FlushEvery
       /\ Len(BufferOf(t)) = calls[t].started_with + 2

\* C4: once chat() has appended the assistant turn it calls the flush if and
\* only if the turns accumulated since the last accepted flush number at least
\* 4 and a multiple of 4; so a session has seen one flush call per 4 turns
\* buffered: none up to 3 turns, one from the 4th turn to the 7th.
C4_FlushIffBatchComplete ==
    /\ \A t \in Tasks :
          (calls[t].kind = "chat" /\ calls[t].pc # "search" /\ ~calls[t].raised) =>
             /\ calls[t].saves \in {0, 1}
             /\ calls[t].saves = 1 <=>
                   (calls[t].since >= 4 /\ calls[t].since % 4 = 0)
    /\ \A b \in Bots : flush_calls[b] = Len(current_session[b]) \div 4

\* The second periodic flush of a session whose first one was accepted: 8 turns
\* buffered, 4 of them since the last flush.
C4_Witness ==
    \E t \in Tasks :
       /\ calls[t].kind = "chat" /\ calls[t].saves = 1
       /\ calls[t].since = 4 /\ Len(BufferOf(t)) = 8
       /\ flush_calls[calls[t].bot] = 2

\* C5: once end_session() has been called on a chatbot, a chat() on it raises
\* and leaves the (cleared) buffer as it is.
C5_ChatAfterEndFails ==
    \A t \in Tasks :
       (calls[t].kind = "chat" /\ ended[calls[t].bot]) =>
          (calls[t].raised /\ BufferOf(t) = <<>>)

\* C6: end_session() on a buffer holding at least one exchange calls the flush
\* exactly once and add_episode exactly once, whatever the buffer's length is
\* modulo 4; on an empty buffer it calls neither.
C6_EndForcesOneFlush ==
    \A t \in Tasks :
       calls[t].kind = "end" =>
          /\ calls[t].started_with >= 2 => (calls[t].saves = 1 /\ calls[t].adds = 1)
          /\ calls[t].started_with = 0 => (calls[t].saves = 0 /\ calls[t].adds = 0)

\* end_session() has finished on a session of one exchange, having called
\* add_episode once.
C6_Witness ==
    \E t \in Tasks :
       /\ calls[t].kind = "end" /\ calls[t].pc = "idle"
       /\ calls[t].started_with = 2 /\ calls[t].adds = 1
       /\ calls[t].episode # <<>>

\* C7: when add_episode raises inside a flush the call does not raise; a
\* periodic flush so rejected leaves the buffer and the accepted prefix as they
\* were; and the episode of the next flush of the session, periodic or by
\* end_session(), holds the rejected episode's turns.
C7_FailedBatchRetried ==
    /\ [][\A t \in Tasks :
             (calls[t].pc = "add" /\ calls'[t].add_result = "failed") =>
                /\ ~calls'[t].raised
                /\ calls[t].kind = "chat" =>
                      /\ current_session' = current_session
                      /\ flushed' = flushed
                      /\ retry'[calls[t].bot] = calls[t].episode]_vars
    /\ [](\A t \in Tasks :
             calls[t].episode # <<>> =>
                IsPrefix(calls[t].prev_failed, calls[t].episode))

\* The engine has accepted an episode submitted after it rejected one of the
\* same session.
C7_Witness ==
    \E t \in Tasks :
       /\ calls[t].prev_failed # <<>>
       /\ calls[t].add_result = "ok"
       /\ Len(calls[t].episode) > Len(calls[t].prev_failed)

\* C8: when search_context raises inside chat(), the context is empty, chat()
\* does not raise, the assistant turn is appended and the response returned is
\* not empty.
C8_SearchFailureDegrades ==
    \A t \in Tasks :
       (calls[t].kind = "chat" /\ calls[t].pc # "search" /\ calls[t].search_raised) =>
          /\ ~calls[t].raised
          /\ calls[t].context = <<>>
          /\ calls[t].response # <<>>
          /\ Len(BufferOf(t)) = calls[t].started_with + 2
          /\ BufferOf(t)[Len(BufferOf(t))] = Message("assistant", calls[t].response)
          /\ BufferOf(t)[Len(BufferOf(t)) - 1] = Message("user", calls[t].user_input)

\* A chat() whose search raised has returned.
C8_Witness ==
    \E t \in Tasks :
       /\ calls[t].kind = "chat" /\ calls[t].pc = "idle"
       /\ calls[t].search_raised /\ calls[t].response # <<>>

\* The trimmed fact of each result of the engine, in rank order
TrimmedFacts(results) ==
    [i \in 1..Len(results) |-> Strip(ResultFact(results[i]))]

\* The rank of the first result whose trimmed fact is f
FirstIndex(f, results) ==
    CHOOSE i \in 1..Len(results) :
       /\ TrimmedFacts(results)[i] = f
       /\ \A j \in 1..(i - 1) : TrimmedFacts(results)[j] # f

\* The string get_relevant_context returns for the facts it retains
Rendered(facts) ==
    IF facts = <<>> THEN <<>>
    ELSE <<"Relevant context from past conversations:", "\n">>
         \o Join([i \in 1..Len(facts) |-> <<"- ">> \o facts[i]], <<"\n">>)

\* C9: the retriever's output holds each distinct trimmed fact at most once,
\* every fact it holds is the trimmed fact of some result, and the facts come
\* in the order of their first occurrence in the engine's results.
C9_DedupFirstSeen ==
    (retr.called /\ ~retr.raised) =>
       /\ retr.out = Rendered(retr.facts)
       /\ \A i, j \in 1..Len(retr.facts) :
             /\ i # j => retr.facts[i] # retr.facts[j]
             /\ \E k \in 1..Len(retr.results) :
                   TrimmedFacts(retr.results)[k] = retr.facts[i]
             /\ i < j => FirstIndex(retr.facts[i], retr.results)
                            < FirstIndex(retr.facts[j], retr.results)

\* Two of the results considered carry the same fact up to surrounding
\* whitespace, and two distinct facts are retained.
C9_Witness ==
    /\ retr.called /\ Len(retr.facts) = 2
    /\ \E i, j \in 1..retr.max_contexts :
          /\ i < j /\ j <= Len(retr.results)
          /\ retr.results[i] # retr.results[j]
          /\ TrimmedFacts(retr.results)[i] = TrimmedFacts(retr.results)[j]
          /\ TrimmedFacts(retr.results)[i] # <<>>

\* The distinct non-blank trimmed facts among the engine's results
DistinctFacts(results) ==
    {TrimmedFacts(results)[i] : i \in 1..Len(results)} \ {<<>>}

Min(a, b) == IF a < b THEN a ELSE b

\* C10: retrieval with limit L returns exactly min(L, number of distinct
\* non-blank facts among the results the engine returned) facts.
C10_ExactlyMinLimitDistinct ==
    (retr.called /\ ~retr.raised) =>
       Len(retr.facts) =
          Min(retr.max_contexts, Cardinality(DistinctFacts(retr.results)))

\* The numbered blocks among the parts format_context_for_llm joins: those
\* that open with a line break
NumberedBlocks(parts) == SelectSeq(parts, LAMBDA p : Head(p) = "\n")

\* C11: for a non-empty result sequence and max_contexts n >= 0,
\* format_context_for_llm renders exactly min(n, len(results)) numbered blocks,
\* numbered 1, 2, ... consecutively, block i carrying the fact of the i-th
\* result.
C11_FormatsMinBlocks ==
    (fmt.called /\ fmt.results # <<>>) =>
       LET blocks == NumberedBlocks(fmt.parts)
       IN  /\ fmt.out = Join(fmt.parts, <<"\n">>)
           /\ Head(fmt.parts) = <<"Relevant conversation context:">>
           /\ Len(blocks) = Min(fmt.max_contexts, Len(fmt.results))
           /\ \A i \in 1..Len(blocks) :
                 /\ blocks[i][2] = ToString(i)
                 /\ SubSeq(blocks[i], 4, Len(blocks[i]))
                       = ResultFact(fmt.results[i])

\* More results than max_contexts were formatted, one of them without a fact
\* and one with a provenance line.
C11_Witness ==
    /\ fmt.called /\ fmt.max_contexts = 2 /\ Len(fmt.results) = 3
    /\ Len(NumberedBlocks(fmt.parts)) = 2
    /\ Len(fmt.parts) = 4
    /\ \E i \in 1..2 : ResultFact(fmt.results[i]) = <<>>

\* C12: on an empty result sequence format_context_for_llm returns the fixed
\* no-context sentinel for every max_contexts n >= 0, with no numbered block.
C12_EmptyGivesSentinel ==
    (fmt.called /\ fmt.results = <<>>) =>
       /\ fmt.out = <<"No relevant context found.">>
       /\ \A i \in 1..Len(fmt.out) : fmt.out[i] # "\n"

\* The formatter was called with no result and a positive max_contexts.
C12_Witness ==
    fmt.called /\ fmt.results = <<>> /\ fmt.max_contexts = MaxFmtResults

\* The turns of the buffer alternate user, assistant, from a user turn
Alternates(session) ==
    \A i \in 1..Len(session) :
       session[i].role = IF i % 2 = 1 THEN "user" ELSE "assistant"

\* Two chat() calls on one chatbot are both between their first line and their
\* return
Overlap ==
    \E t1, t2 \in Tasks :
       /\ t1 # t2
       /\ calls[t1].kind = "chat" /\ calls[t1].pc # "idle"
       /\ calls[t2].kind = "chat" /\ calls[t2].pc # "idle"
       /\ calls[t1].bot = calls[t2].bot

\* C13: within one session the turns are processed in invocation order with no
\* overlap: a second chat() started while the first is suspended at an await
\* does not run while the first is unfinished, and the buffer reads user,
\* assistant, user, assistant (never user, user, assistant, assistant).
C13_NoOverlapInOrder ==
    /\ ~Overlap
    /\ \A b \in Bots :
          (\A t \in Tasks : calls[t].bot = b => calls[t].pc # "search") =>
             Alternates(current_session[b])

\* C14: when add_episode fails in the periodic flush at the end of chat(),
\* chat() does not raise: it returns the assistant output, and the buffer still
\* ends with that call's user turn and assistant turn.
C14_FlushFailureAbsorbed ==
    \A t \in Tasks :
       (calls[t].kind = "chat" /\ calls[t].add_result = "failed") =>
          /\ calls[t].pc = "idle"
          /\ ~calls[t].raised
          /\ calls[t].response = GenerateResponse(calls[t].user_input,
                                                  calls[t].context)
          /\ Len(BufferOf(t)) = calls[t].started_with + 2
          /\ LastN(BufferOf(t), 2) =
                << Message("user", calls[t].user_input),
                   Message("assistant", calls[t].response) >>

\* The engine has rejected the episode of a periodic flush and chat() has
\* returned.
C14_Witness ==
    \E t \in Tasks :
       /\ calls[t].kind = "chat" /\ calls[t].pc = "idle"
       /\ calls[t].add_result = "failed"
       /\ calls[t].saves = 1 /\ calls[t].adds = 1
       /\ Len(BufferOf(t)) = FlushEvery

\* C15: when the generation of the response fails inside chat(), the failure
\* reaches the caller, no assistant turn is appended and no flush is attempted
\* in that call, and the user turn the call appended stays in the buffer.
C15_GenerationFailurePropagates ==
    \A t \in Tasks :
       (calls[t].kind = "chat" /\ calls[t].gen_raised) =>
          /\ calls[t].pc = "idle"
          /\ calls[t].raised
          /\ calls[t].response = <<>>
          /\ calls[t].saves = 0 /\ calls[t].adds = 0
          /\ Len(BufferOf(t)) = calls[t].started_with + 1
          /\ BufferOf(t)[Len(BufferOf(t))] =
                Message("user", calls[t].user_input)

\* The generation has failed in the chat() that would have completed a batch
\* of 4 turns.
C15_Witness ==
    \E t \in Tasks :
       /\ calls[t].kind = "chat" /\ calls[t].gen_raised /\ calls[t].raised
       /\ calls[t].started_with = FlushEvery - 2
       /\ Len(BufferOf(t)) = FlushEvery - 1

\* C16: close() is called exactly once on every path of the script, those
\* where a chat() or end_session() raises included; when it is called,
\* end_session() has completed for every session created on the handle; and
\* no engine call is in flight or issued once it has been called.
C16_CloseOnceAfterSessionsEnd ==
    /\ driver.closes <= 1
    /\ driver.closes = 1 <=> driver.pc = "done"
    /\ driver.pc = "done" =>
          /\ driver.open_at_close = {}
          /\ NoCallInProgress

\* Turns of the buffer that no accepted episode holds
AtRisk(b) == Len(current_session[b]) - flushed[b]

\* C17: whenever no chat() call is in progress and no add_episode call of the
\* session stands rejected, fewer than 4 buffered turns are outside every
\* accepted episode.
C17_BoundedLoss ==
    \A b \in Bots :
       ((\A t \in Tasks : ~(calls[t].kind = "chat" /\ calls[t].pc # "idle"
                                /\ calls[t].bot = b))
        /\ retry[b] = <<>>) =>
          AtRisk(b) < FlushEvery

\* C18: within one chat() call the user turn is appended, then search_context
\* is called once, then the context is formatted and the response generated
\* from it, then the assistant turn is appended, then the flush check is made
\* and add_episode called at most once; search_context is never called once
\* the assistant turn is appended.
C18_StepOrder ==
    \A t \in Tasks :
       calls[t].kind = "chat" =>
          /\ calls[t].searches = 1
          /\ calls[t].at_search = calls[t].started_with + 1
          /\ BufferOf(t)[calls[t].at_search] =
                Message("user", calls[t].user_input)
          /\ calls[t].pc = "search" =>
                /\ Len(BufferOf(t)) = calls[t].at_search
                /\ calls[t].response = <<>>
                /\ calls[t].saves = 0 /\ calls[t].adds = 0
          /\ (calls[t].pc # "search" /\ ~calls[t].raised) =>
                /\ calls[t].response =
                      GenerateResponse(calls[t].user_input, calls[t].context)
                /\ Len(BufferOf(t)) = calls[t].at_search + 1
                /\ BufferOf(t)[calls[t].at_search + 1] =
                      Message("assistant", calls[t].response)
                /\ calls[t].saves <= 1 /\ calls[t].adds <= calls[t].saves
                /\ calls[t].adds = 1 =>
                      calls[t].episode[Len(calls[t].episode)] =
                         Message("assistant", calls[t].response)

\* A chat() that went through every step: it searched with its user turn
\* buffered, got facts, answered, and awaits the add_episode of its flush.
C18_Witness ==
    \E t \in Tasks :
       /\ calls[t].kind = "chat" /\ calls[t].pc = "add"
       /\ calls[t].searches = 1 /\ calls[t].adds = 1
       /\ calls[t].context # <<>>
       /\ calls[t].at_search = FlushEvery - 1

\* C19: every episode submitted to the engine holds at least 2 turns: a flush,
\* periodic or forced by end_session(), made with fewer than 2 buffered turns
\* calls add_episode not at all.
C19_EpisodeAtLeastTwoTurns ==
    \A t \in Tasks :
       /\ calls[t].adds >= 1 => Len(calls[t].episode) >= MinEpisodeLen
       /\ (calls[t].kind = "end" /\ calls[t].started_with \in 1..(MinEpisodeLen - 1)) =>
             /\ calls[t].saves = 1
             /\ calls[t].adds = 0
             /\ calls[t].add_result = "none"

\* end_session() has flushed a buffer that held the lone user turn of a chat()
\* that raised, and has submitted nothing.
C19_Witness ==
    \E t \in Tasks :
       /\ calls[t].kind = "end" /\ calls[t].pc = "idle"
       /\ calls[t].started_with = 1
       /\ calls[t].saves = 1 /\ calls[t].adds = 0
       /\ current_session[calls[t].bot] = <<>>

\* The results get_relevant_context looks at
Considered == Take(retr.results, retr.max_contexts)

\* C20: the retriever keys its deduplication on the trimmed fact: results whose
\* facts differ only in leading or trailing whitespace yield one retained fact,
\* the first in rank order, and a result whose fact is missing, empty or only
\* whitespace yields none; so the retained facts are exactly the distinct
\* non-blank trimmed facts of the results considered, each with no whitespace
\* around it.
C20_DedupKeyIsTrimmedFact ==
    (retr.called /\ ~retr.raised) =>
       /\ \A i \in 1..Len(retr.facts) :
             LET f == retr.facts[i]
             IN  /\ f # <<>>
                 /\ f[1] \notin Whitespace /\ f[Len(f)] \notin Whitespace
       /\ {retr.facts[i] : i \in 1..Len(retr.facts)} = DistinctFacts(Considered)
       /\ Len(retr.facts) = Cardinality(DistinctFacts(Considered))
       /\ \A k \in 1..Len(Considered) :
             LET f == ResultFact(Considered[k])
             IN  (f = <<>> \/ \A c \in 1..Len(f) : f[c] \in Whitespace) =>
                    \A i \in 1..Len(retr.facts) : retr.facts[i] # f

\* Among the results considered, a fact comes with and then without
\* surrounding whitespace, another result has a blank or missing fact, and
\* one fact is retained for the three of them.
C20_Witness ==
    /\ retr.called /\ ~retr.raised
    /\ Len(Considered) = 3 /\ Len(retr.facts) = 1
    /\ \E i, j, k \in 1..3 :
          /\ i < j
          /\ ResultFact(Considered[i]) # ResultFact(Considered[j])
          /\ ResultFact(Considered[i]) # Strip(ResultFact(Considered[i]))
          /\ Strip(ResultFact(Considered[i])) = ResultFact(Considered[j])
          /\ retr.facts[1] = ResultFact(Considered[j])
          /\ Strip(ResultFact(Considered[k])) = <<>>

\* C21: get_context_for_query is best-effort: when search_context raises, the
\* call raises nothing to its caller and returns the no-context result.
C21_QueryFailureSwallowed ==
    (qry.called /\ qry.search_raised) =>
       /\ ~qry.raised
       /\ qry.out \in {<<>>, <<"No relevant context found.">>}

\* The turns i..j of a buffer as the prompt renders them, one "role: content"
\* line each
RenderedTurns(session, i, j) ==
    Join([k \in 1..(j - i + 1) |->
            <<session[i + k - 1].role, ": ">> \o session[i + k - 1].content],
         <<"\n">>)

\* The lines of a rendered conversation history
HistoryLines(history) ==
    Cardinality({k \in 1..Len(history) : history[k] = ": "})

\* C22: the generation request chat() builds holds, as its recent
\* conversation, exactly the last min(6, n) turns of the n-turn buffer, in
\* buffer order, and never more than 6 turns.
C22_WindowIsLastSixTurns ==
    \A t \in Tasks :
       (calls[t].kind = "chat" /\ calls[t].pc # "search") =>
          LET n == calls[t].at_search
          IN  /\ HistoryLines(calls[t].history) = Min(HistoryWindow, n)
              /\ HistoryLines(calls[t].history) <= HistoryWindow
              /\ calls[t].history =
                    RenderedTurns(BufferOf(t), n - Min(HistoryWindow, n) + 1, n)

\* A request was built from a buffer of 7 turns: the first turn is left out.
C22_Witness ==
    \E t \in Tasks :
       /\ calls[t].kind = "chat" /\ calls[t].pc # "search"
       /\ calls[t].at_search = HistoryWindow + 1
       /\ HistoryLines(calls[t].history) = HistoryWindow

\* C23: sessions are independent: a step of chat(), of a flush or of
\* end_session() on one MemoryChatbot changes the buffer of no other
\* MemoryChatbot, also when the calls of two chatbots on one engine handle
\* interleave at their awaits.
C23_SessionsIndependent ==
    [][\A b \in Bots :
          current_session'[b] # current_session[b] =>
             \E t \in Tasks :
                /\ calls'[t] # calls[t]
                /\ calls'[t].bot = b
                /\ \A o \in Tasks \ {t} : calls'[o] = calls[o]]_vars

\* The calls of the two chatbots are interleaved: one awaits the add_episode
\* of its periodic flush while the other, a turn buffered, awaits its search.
C23_Witness ==
    /\ calls[1].kind = "chat" /\ calls[1].pc = "add"
    /\ calls[1].bot = "user_001"
    /\ Len(current_session["user_001"]) = FlushEvery
    /\ calls[2].kind = "chat" /\ calls[2].pc = "search"
    /\ calls[2].bot = "user_002"
    /\ Len(current_session["user_002"]) = 1

\* The numbered blocks of a formatted context: its "<i>. " markers
BlockCount(out) == Cardinality({p \in 1..Len(out) : out[p] = ". "})

\* The fact of the engine's i-th ranked result is in the text
ShowsRank(out, i) ==
    \E p \in 1..(Len(out) - 1) : out[p] = "fact" /\ out[p + 1] = ToString(i)

\* C24: with formatting enabled get_context_for_query renders min(5, number
\* of results the engine returned) numbered facts whatever `limit` it was
\* given: the results of rank 1 to 5, never one of rank 6 or beyond.
C24_QueryShowsAtMostFive ==
    (qry.called /\ ~qry.raised /\ qry.format_for_llm) =>
       /\ BlockCount(qry.out) = Min(DefaultFormatContexts, Len(qry.results))
       /\ BlockCount(qry.out) <= DefaultFormatContexts
       /\ \A i \in 1..Len(qry.results) :
             ShowsRank(qry.out, i) <=> i <= DefaultFormatContexts

\* The query asked for more than 5 results and the engine returned a 6th.
C24_Witness ==
    /\ qry.called /\ ~qry.raised /\ qry.format_for_llm
    /\ qry.limit > DefaultFormatContexts
    /\ Len(qry.results) > DefaultFormatContexts
    /\ BlockCount(qry.out) = DefaultFormatContexts

\* C25: when the chat() calls on a session run to completion one at a time,
\* the buffer between calls has even length and alternates user, assistant
\* from a user turn on; so every evaluation of the flush trigger sees a
\* whole number of exchanges.
C25_WholeExchanges ==
    /\ \A b \in Bots :
          (\A t \in Tasks : ~(calls[t].bot = b /\ calls[t].pc = "search")) =>
             /\ Len(current_session[b]) % 2 = 0
             /\ Alternates(current_session[b])
    /\ \A t \in Tasks :
          (calls[t].kind = "chat" /\ calls[t].pc # "search") =>
             /\ (calls[t].at_search + 1) % 2 = 0
             /\ calls[t].since % 2 = 0

\* Three chat() calls have completed on a session, none of them flushing.
C25_Witness ==
    \E t \in Tasks :
       /\ calls[t].kind = "chat" /\ calls[t].pc = "idle" /\ calls[t].saves = 0
       /\ Len(BufferOf(t)) = 6
       /\ calls[t].started_with = 4

\* C26: end_session() raises nothing when add_episode fails; called on a
\* non-empty buffer it leaves the buffer empty, whether add_episode returned,
\* raised, or was not called because fewer than 2 turns were buffered; called
\* on an empty buffer it makes no engine call and leaves the buffer empty.
C26_EndSessionAlwaysClears ==
    \A t \in Tasks :
       (calls[t].kind = "end" /\ calls[t].pc = "idle") =>
          /\ ~calls[t].raised
          /\ BufferOf(t) = <<>>
          /\ calls[t].started_with = 0 =>
                calls[t].saves = 0 /\ calls[t].adds = 0
          /\ calls[t].started_with \in 1..(MinEpisodeLen - 1) =>
                calls[t].saves = 1 /\ calls[t].adds = 0
          /\ calls[t].started_with >= MinEpisodeLen =>
                /\ calls[t].saves = 1 /\ calls[t].adds = 1
                /\ calls[t].add_result \in {"ok", "failed"}

\* end_session() has returned after the engine rejected its episode, the
\* buffer it was called on holding an exchange and a lone user turn.
C26_Witness ==
    \E t \in Tasks :
       /\ calls[t].kind = "end" /\ calls[t].pc = "idle"
       /\ calls[t].add_result = "failed"
       /\ calls[t].started_with = MinEpisodeLen + 1
       /\ current_session[calls[t].bot] = <<>>
====
